---- MODULE Spec2Model ----
(***************************************************************************)
(* Model of the mutation engine of src/artifact/generate_mutants.py:       *)
(* insert_comments_str, update_variable_names_str,                         *)
(* insert_dead_code_snippets_str and the orchestrator process_dataset.     *)
(*                                                                         *)
(* A Python str holding source text is a sequence of Line records          *)
(*   [ind |-> leading indentation levels, body |-> tokens, eol |-> "\n"?]  *)
(* in normal form: every line but the last ends with a terminator, and a   *)
(* last line without terminator is not empty.  Len(s) is then              *)
(* len(s.splitlines()).  One indentation level renders as four spaces and  *)
(* the tokens of a body are rendered separated by single spaces.           *)
(***************************************************************************)
EXTENDS Integers, Sequences, FiniteSets, TLC

----------------------------------------------------------------------------
(* Bounds of the model *)

MaxLines == 3
MaxCount == 2

\* the largest comment count and comment supply of a direct call of
\* insert_comments_str: more than the statement lines of a text can be asked
MaxComments == 3
MaxSupply == 2
MaxSampleLines == 2
MaxFiles == 2

----------------------------------------------------------------------------
(* Python str primitives on the line representation *)

Min2(a, b) == IF a <= b THEN a ELSE b

Max2(a, b) == IF a >= b THEN a ELSE b

Front(s) == SubSeq(s, 1, Len(s) - 1)

Last(s) == s[Len(s)]

Ln(i, b, e) == [ind |-> i, body |-> b, eol |-> e]

IsBlank(l) == l.body = <<>>

Gap(n) == [i \in 1..n |-> "    "]

\* the one line that results from writing line b right after the
\* unterminated line a
Merge(a, b) ==
  IF a.body = <<>>
  THEN Ln(a.ind + b.ind, b.body, b.eol)
  ELSE Ln(a.ind, a.body \o (IF b.body = <<>> THEN <<>> ELSE Gap(b.ind) \o b.body), b.eol)

\* s + t
Cat(s, t) ==
  IF s = <<>> THEN t
  ELSE IF t = <<>> THEN s
  ELSE IF Last(s).eol THEN s \o t
  ELSE Front(s) \o <<Merge(Last(s), Head(t))>> \o Tail(t)

\* "".join(parts)
RECURSIVE JoinAll(_)
JoinAll(parts) ==
  IF parts = <<>> THEN <<>> ELSE Cat(Head(parts), JoinAll(Tail(parts)))

\* s.splitlines(): the lines without their terminators
splitlines(s) == [i \in 1..Len(s) |-> [s[i] EXCEPT !.eol = FALSE]]

\* s.splitlines(keepends=True): each element is a one-line str
splitlines_keepends(s) == [i \in 1..Len(s) |-> <<s[i]>>]

\* "\n".join(lines) + "\n" for one-line items without terminator
JoinNewline(lines) == [i \in 1..Len(lines) |-> [lines[i] EXCEPT !.eol = TRUE]]

\* lst[idx] = item in place of an insertion
ListInsert_Overwrite(lst, idx, item) ==
  [i \in 1..Len(lst) |-> IF i = idx + 1 THEN item ELSE lst[i]]

\* list.insert(idx, item), idx 0-based
ListInsert(lst, idx, item) ==
  LET k == Min2(Max2(idx, 0), Len(lst))
  IN  SubSeq(lst, 1, k) \o <<item>> \o SubSeq(lst, k + 1, Len(lst))

\* s.strip()
RECURSIVE DropLeadingBlank(_)
DropLeadingBlank(s) ==
  IF s = <<>> THEN <<>>
  ELSE IF IsBlank(Head(s)) THEN DropLeadingBlank(Tail(s))
  ELSE s

RECURSIVE DropTrailingBlank(_)
DropTrailingBlank(s) ==
  IF s = <<>> THEN <<>>
  ELSE IF IsBlank(Last(s)) THEN DropTrailingBlank(Front(s))
  ELSE s

strip(s) ==
  LET t == DropTrailingBlank(DropLeadingBlank(s))
  IN  IF t = <<>> THEN <<>>
      ELSE [i \in 1..Len(t) |->
              IF i = 1 /\ i = Len(t) THEN Ln(0, t[i].body, FALSE)
              ELSE IF i = 1 THEN [t[i] EXCEPT !.ind = 0]
              ELSE IF i = Len(t) THEN [t[i] EXCEPT !.eol = FALSE]
              ELSE t[i]]

----------------------------------------------------------------------------
(* The source language of the samples, as far as the engine looks at it *)

Names == {"x", "y", "z", "w", "q", "r"}

Nums == {"0", "1"}

IsComment(l) == Len(l.body) = 1 /\ l.body[1] \in {"#c1", "#c2", "#c3", "#c4"}

\* NAME = NAME | NUM
IsAssign(l) ==
  /\ Len(l.body) = 3
  /\ l.body[1] \in Names
  /\ l.body[2] = "="
  /\ l.body[3] \in Names \cup Nums

\* if NAME | NUM :
IsBlockOpener(l) ==
  /\ Len(l.body) = 3
  /\ l.body[1] = "if"
  /\ l.body[2] \in Names \cup Nums
  /\ l.body[3] = ":"

\* a line the tokenizer turns into a logical line
IsCodeLine(l) == ~IsBlank(l) /\ ~IsComment(l)

IsStatement(l) == IsAssign(l) \/ IsBlockOpener(l)

\* the indentation rule of the Python grammar over the logical lines
\* lines[i..]: stack holds the open indentation levels, expect says the
\* previous logical line opened a block
RECURSIVE IndentOK(_, _, _, _)
IndentOK(lines, i, stack, expect) ==
  IF i > Len(lines) THEN ~expect
  ELSE IF ~IsCodeLine(lines[i]) THEN IndentOK(lines, i + 1, stack, expect)
  ELSE LET n == lines[i].ind
           open == SelectSeq(stack, LAMBDA lv : lv <= n)
       IN  IF expect
           THEN /\ n > Last(stack)
                /\ IndentOK(lines, i + 1, Append(stack, n), IsBlockOpener(lines[i]))
           ELSE /\ n <= Last(stack)
                /\ open # <<>>
                /\ Last(open) = n
                /\ IndentOK(lines, i + 1, open, IsBlockOpener(lines[i]))

\* ast.parse(code) returns a tree (TRUE) or raises (FALSE)
ast_parse_ok(code) ==
  /\ \A i \in 1..Len(code) : IsCodeLine(code[i]) => IsStatement(code[i])
  /\ IndentOK(code, 1, <<0>>, FALSE)

\* {node.lineno for node in ast.walk(tree) if hasattr(node, 'lineno')}
statement_lines_of(code) == {i \in 1..Len(code) : IsCodeLine(code[i])}

\* VariableCollector: the ids of the Name nodes in Store context
collector_variables(code) ==
  {code[i].body[1] : i \in {j \in 1..Len(code) : IsAssign(code[j])}}

\* sorted(S) for a set of integers
RECURSIVE SortedSeq(_)
SortedSeq(S) ==
  IF S = {} THEN <<>>
  ELSE LET m == CHOOSE a \in S : \A b \in S : a <= b
       IN  <<m>> \o SortedSeq(S \ {m})

SeqToSet(s) == {s[i] : i \in 1..Len(s)}

\* the orders a list of the elements of S can have
Perms(S) ==
  {p \in [1..Cardinality(S) -> S] : \A i, j \in 1..Cardinality(S) : p[i] = p[j] => i = j}

----------------------------------------------------------------------------
(* autopep8.fix_code (library call at generate_mutants.py:127 and :161),   *)
(* restricted to the fixes that apply to texts of this language:           *)
(*   E113 unexpected indentation is removed,                               *)
(*   W293 whitespace on a blank line is removed,                           *)
(*   E303 more than two blank lines (one inside a block) are reduced,      *)
(*   W391 blank lines at the end of the file are removed,                  *)
(*   W292 the last line gets its terminator.                               *)

\* E113: prev is the indentation of the previous logical line as fixed
RECURSIVE FixE113(_, _, _)
FixE113(lines, prev, expect) ==
  IF lines = <<>> THEN <<>>
  ELSE LET l == Head(lines)
       IN  IF ~IsCodeLine(l) THEN <<l>> \o FixE113(Tail(lines), prev, expect)
           ELSE LET n == IF ~expect /\ l.ind > prev THEN prev ELSE l.ind
                IN  <<[l EXCEPT !.ind = n]>> \o
                    FixE113(Tail(lines), n, IsBlockOpener(l))

FixW293(lines) ==
  [i \in 1..Len(lines) |->
     IF IsBlank(lines[i]) THEN [lines[i] EXCEPT !.ind = 0] ELSE lines[i]]

\* E303: run is the number of blank lines kept since the last logical line
RECURSIVE FixE303(_, _)
FixE303(lines, pending) ==
  IF lines = <<>> THEN pending
  ELSE LET l == Head(lines)
       IN  IF IsBlank(l) THEN FixE303(Tail(lines), Append(pending, l))
           ELSE LET allowed == IF l.ind > 0 THEN 1 ELSE 2
                    keep == SubSeq(pending, 1, Min2(Len(pending), allowed))
                IN  keep \o <<l>> \o FixE303(Tail(lines), <<>>)

FixW391(lines) == DropTrailingBlank(lines)

FixW292(lines) ==
  [i \in 1..Len(lines) |-> [lines[i] EXCEPT !.eol = TRUE]]

autopep8_fix_code(code) ==
  FixW292(FixW391(FixE303(FixW293(FixE113(code, 0, FALSE)), <<>>)))

----------------------------------------------------------------------------
(* Results of a call: a returned (text, pointer) pair or a raised error *)

Return(c, b) == [kind |-> "return", code |-> c, bug_line |-> b]

Raise(e) == [kind |-> "raise", code |-> <<>>, bug_line |-> 0, error |-> e]

----------------------------------------------------------------------------
(* insert_comments_str, generate_mutants.py:119-151 *)

\* the for loop of lines 144-149 from position index i on
RECURSIVE InsertCommentsLoop(_, _, _, _, _, _, _)
InsertCommentsLoop(insert_positions, i, updated_lines, bug_line, new_bug_line, comment_index, args) ==
  IF i > Len(insert_positions)
  THEN Return(JoinNewline(updated_lines), new_bug_line)
  ELSE LET pos == insert_positions[i]
       IN  IF comment_index < args.num
           THEN InsertCommentsLoop(insert_positions, i + 1,
                  ListInsert(updated_lines, pos - 1, args.list[comment_index + 1]),
                  bug_line,
                  IF pos <= bug_line THEN new_bug_line + 1 ELSE new_bug_line,
                  comment_index + 1, args)
           ELSE InsertCommentsLoop(insert_positions, i + 1, updated_lines,
                  bug_line, new_bug_line, comment_index, args)

\* lines 133-151, once a tree exists for code; shuffled is the order
\* random.shuffle leaves statement_lines in
InsertCommentsParsed(code, bug_line, num_comments, comments_list, shuffled) ==
  IF num_comments > Len(comments_list) THEN Raise("ValueError")
  ELSE IF statement_lines_of(code) = {} THEN Return(code, bug_line)
  ELSE LET taken == SubSeq(shuffled, 1, Min2(num_comments, Len(shuffled)))
           insert_positions == SortedSeq(SeqToSet(taken))
       IN  InsertCommentsLoop(insert_positions, 1, splitlines(code), bug_line,
                              bug_line, 0, [num |-> num_comments, list |-> comments_list])

\* the shuffles the call can draw: one order of the statement lines of the
\* text that is parsed (the given text, or the reformatted one)
CommentShuffles(code) ==
  IF ast_parse_ok(code) THEN Perms(statement_lines_of(code))
  ELSE IF ast_parse_ok(autopep8_fix_code(code))
       THEN Perms(statement_lines_of(autopep8_fix_code(code)))
       ELSE {<<>>}

insert_comments_str(code, bug_line, num_comments, comments_list, shuffled) ==
  IF ast_parse_ok(code)
  THEN InsertCommentsParsed(code, bug_line, num_comments, comments_list, shuffled)
  ELSE LET code2 == autopep8_fix_code(code)
       IN  IF ast_parse_ok(code2)
           THEN InsertCommentsParsed(code2, bug_line, num_comments, comments_list, shuffled)
           ELSE Return(code2, bug_line)

----------------------------------------------------------------------------
(* update_variable_names_str, generate_mutants.py:153-192 *)

Keywords == {"if", "print"}

\* tok.type == tokenize.NAME
IsNameToken(tok) == tok \in Names \cup Keywords

\* tokenize.tokenize raises TokenError on a bracket left open at the end
OpenBrackets(code) ==
  Cardinality({<<i, j>> \in (1..Len(code)) \X (1..3) :
                 j <= Len(code[i].body) /\ code[i].body[j] = "("})

CloseBrackets(code) ==
  Cardinality({<<i, j>> \in (1..Len(code)) \X (1..3) :
                 j <= Len(code[i].body) /\ code[i].body[j] = ")"})

tokenize_raises(code) == OpenBrackets(code) > CloseBrackets(code)

\* dict(zip(old_vars[:num_vars], vars_list[:num_vars])) as the list of its
\* keys and the list of their values
RenameCount(old_vars, num_vars, vars_list) ==
  Min2(Min2(num_vars, Len(old_vars)), Len(vars_list))

\* a renamer that looks the replacement up again, following a -> b -> c
RenameToken_Chained(tok, old_vars, vars_list, m) ==
  LET Mapped(t) == IF IsNameToken(t) /\ \E i \in 1..m : old_vars[i] = t
                   THEN vars_list[CHOOSE i \in 1..m : old_vars[i] = t]
                   ELSE t
  IN  Mapped(Mapped(tok))

\* lines 184-185 for one token
RenameToken(tok, old_vars, vars_list, m) ==
  IF IsNameToken(tok) /\ \E i \in 1..m : old_vars[i] = tok
  THEN vars_list[CHOOSE i \in 1..m : old_vars[i] = tok]
  ELSE tok

\* a renamer that replaces a mapped name only where a line starts with it
RenameLine_FirstTokenOnly(l, old_vars, vars_list, m) ==
  [l EXCEPT !.body = [j \in 1..Len(l.body) |->
                        IF j = 1 THEN RenameToken(l.body[j], old_vars, vars_list, m)
                        ELSE l.body[j]]]

\* lines 183-186 for the tokens of one line
RenameLine(l, old_vars, vars_list, m) ==
  [l EXCEPT !.body = [j \in 1..Len(l.body) |->
                        RenameToken(l.body[j], old_vars, vars_list, m)]]

\* tokenize.untokenize: the text is rebuilt from the token positions; a last
\* line that holds only whitespace and no terminator yields no token and is
\* not rebuilt
untokenize(lines) ==
  IF lines # <<>> /\ IsBlank(Last(lines)) /\ ~Last(lines).eol
  THEN Front(lines)
  ELSE lines

\* lines 167-192, once a tree exists for code; old_vars is the order in
\* which list(collector.variables) yields the set
RenameParsed(code, bug_line, num_vars, vars_list, old_vars) ==
  IF tokenize_raises(code) THEN Return(code, bug_line)
  ELSE LET m == RenameCount(old_vars, num_vars, vars_list)
       IN  Return(untokenize([i \in 1..Len(code) |->
                                RenameLine(code[i], old_vars, vars_list, m)]),
                  bug_line)

\* the orders list(collector.variables) can have for the parsed text
VarOrders(code) ==
  IF ast_parse_ok(code) THEN Perms(collector_variables(code))
  ELSE IF ast_parse_ok(autopep8_fix_code(code))
       THEN Perms(collector_variables(autopep8_fix_code(code)))
       ELSE {<<>>}

update_variable_names_str(code, bug_line, num_vars, vars_list, old_vars) ==
  IF ast_parse_ok(code)
  THEN RenameParsed(code, bug_line, num_vars, vars_list, old_vars)
  ELSE LET code2 == autopep8_fix_code(code)
       IN  IF ast_parse_ok(code2)
           THEN RenameParsed(code2, bug_line, num_vars, vars_list, old_vars)
           ELSE Return(code2, bug_line)

----------------------------------------------------------------------------
(* get_base_indent, indent_snippet, insert_dead_code_snippets_str,         *)
(* generate_mutants.py:194-253                                             *)

\* a str of n indentation levels
Indent(n) == IF n = 0 THEN <<>> ELSE <<Ln(n, <<>>, FALSE)>>

\* re.match(r'^(\s*)', line).group(1) for a one-line str that may end with
\* its terminator: \s also matches the terminator of a blank line
LeadingWhitespace(line) ==
  IF IsBlank(line) THEN <<line>> ELSE Indent(line.ind)

\* the loop of lines 203-207 from index i down to 0 (0-based)
RECURSIVE BaseIndentBackward(_, _)
BaseIndentBackward(lines, i) ==
  IF i < 0 THEN <<>>
  ELSE IF ~IsBlank(lines[i + 1][1]) THEN LeadingWhitespace(lines[i + 1][1])
  ELSE BaseIndentBackward(lines, i - 1)

\* lines is code.splitlines(keepends=True), pos is 0-based
get_base_indent(lines, pos) ==
  IF pos < Len(lines)
  THEN LeadingWhitespace(lines[pos + 1][1])
  ELSE BaseIndentBackward(lines, pos - 1)

MinInd(S) == IF S = {} THEN 0 ELSE CHOOSE a \in S : \A b \in S : a <= b

\* textwrap.dedent(snippet)
dedent(snippet) ==
  LET margin == MinInd({snippet[i].ind : i \in {j \in 1..Len(snippet) : ~IsBlank(snippet[j])}})
      d == [i \in 1..Len(snippet) |->
              IF IsBlank(snippet[i]) THEN [snippet[i] EXCEPT !.ind = 0]
              ELSE [snippet[i] EXCEPT !.ind = @ - margin]]
  IN  IF d # <<>> /\ IsBlank(Last(d)) /\ ~Last(d).eol THEN Front(d) ELSE d

\* [base_indent + line + "\n" for line in snippet_lines if line.strip() != ""]
indent_snippet(snippet, base_indent) ==
  LET snippet_lines == splitlines(dedent(snippet))
      kept == SelectSeq(snippet_lines, LAMBDA l : ~IsBlank(l))
  IN  [i \in 1..Len(kept) |->
         LET t == Cat(base_indent, <<kept[i]>>)
         IN  [j \in 1..Len(t) |-> IF j = Len(t) THEN [t[j] EXCEPT !.eol = TRUE] ELSE t[j]]]

\* lines 233-236: the sum over the insertions from index i on
RECURSIVE ExtraLinesBeforeBug(_, _, _, _)
ExtraLinesBeforeBug(insertion_positions, chosen_snippets, i, bug_line) ==
  IF i > Len(insertion_positions) THEN 0
  ELSE (IF insertion_positions[i] <= bug_line - 1
        THEN Len(splitlines(dedent(chosen_snippets[i])))
        ELSE 0)
       + ExtraLinesBeforeBug(insertion_positions, chosen_snippets, i + 1, bug_line)

\* lines 241-250: the list new_lines built from insertion i and original
\* line current_index (0-based) on
RECURSIVE BuildNewLines(_, _, _, _, _)
BuildNewLines(original_lines, insertion_positions, chosen_snippets, i, current_index) ==
  IF i > Len(insertion_positions)
  THEN SubSeq(original_lines, current_index + 1, Len(original_lines))
  ELSE LET pos == insertion_positions[i]
           upto == Max2(pos, current_index)
           base_indent == get_base_indent(original_lines, pos)
       IN  SubSeq(original_lines, current_index + 1, upto)
           \o indent_snippet(chosen_snippets[i], base_indent)
           \o BuildNewLines(original_lines, insertion_positions, chosen_snippets,
                            i + 1, upto)

\* chosen_snippets is the list random.sample(dead_snippets, num_snippets)
\* returns, positions the set random.sample(range(0, total_lines + 1),
\* num_snippets) returns
insert_dead_code_snippets_str(code, bug_line, num_dead, dead_snippets, chosen_snippets, positions) ==
  LET original_lines == splitlines_keepends(code)
      total_lines == Len(original_lines)
      num_snippets == Min2(Min2(num_dead, Len(dead_snippets)), total_lines)
  IN  IF num_snippets <= 0 THEN Return(code, bug_line)
      ELSE LET insertion_positions == SortedSeq(positions)
               new_bug_line == bug_line + ExtraLinesBeforeBug(insertion_positions,
                                             chosen_snippets, 1, bug_line)
               new_lines == BuildNewLines(original_lines, insertion_positions,
                                          chosen_snippets, 1, 0)
           IN  Return(JoinAll(new_lines), new_bug_line)

\* the draws of one call: the lists of num_snippets snippets at distinct
\* supply positions, and the sets of num_snippets distinct offsets
NumSnippets(code, num_dead, dead_snippets) ==
  Max2(0, Min2(Min2(num_dead, Len(dead_snippets)), Len(code)))

\* a sampler that draws with replacement, as random.choices would
SnippetSamples_WithReplacement(code, num_dead, dead_snippets) ==
  LET n == NumSnippets(code, num_dead, dead_snippets)
  IN  {[i \in 1..n |-> dead_snippets[idx[i]]] :
         idx \in [1..n -> 1..Len(dead_snippets)]}

SnippetSamples(code, num_dead, dead_snippets) ==
  LET n == NumSnippets(code, num_dead, dead_snippets)
  IN  {[i \in 1..n |-> dead_snippets[idx[i]]] :
         idx \in {f \in [1..n -> 1..Len(dead_snippets)] :
                    \A i, j \in 1..n : f[i] = f[j] => i = j}}

PositionSamples(code, num_dead, dead_snippets) ==
  LET n == NumSnippets(code, num_dead, dead_snippets)
  IN  {P \in SUBSET (0..Len(code)) : Cardinality(P) = n}

----------------------------------------------------------------------------
(* Inputs of the calls *)

LineUniverse ==
  { Ln(0, <<"x", "=", "1">>, TRUE),
    Ln(0, <<"y", "=", "x">>, TRUE),
    Ln(0, <<"if", "x", ":">>, TRUE),
    Ln(1, <<"y", "=", "x">>, TRUE),
    Ln(0, <<>>, TRUE),
    Ln(1, <<>>, TRUE),
    Ln(0, <<"print", "'a'">>, TRUE) }

\* a str in normal form: no empty last line without terminator
IsStr(t) == t = <<>> \/ ~(Last(t).ind = 0 /\ Last(t).body = <<>> /\ ~Last(t).eol)

\* the texts of 1..MaxLines lines, with or without a terminator on the last
Texts ==
  {s \in UNION {{[i \in 1..n |-> IF i = n THEN [t[i] EXCEPT !.eol = e] ELSE t[i]] :
                   t \in [1..n -> LineUniverse], e \in BOOLEAN} : n \in 1..MaxLines} :
     IsStr(s)}

\* the comment, name and snippet supplies handed over by the orchestrator
AllComments ==
  <<Ln(0, <<"#c1">>, FALSE), Ln(0, <<"#c2">>, FALSE), Ln(0, <<"#c3">>, FALSE),
    Ln(0, <<"#c4">>, FALSE)>>

AllVars == <<"q", "r", "w">>

AllSnippets ==
  << <<Ln(0, <<"z", "=", "0">>, TRUE), Ln(0, <<>>, TRUE), Ln(0, <<"w", "=", "1">>, FALSE)>>,
     <<Ln(1, <<"z", "=", "0">>, FALSE)>>,
     <<Ln(0, <<"z", "=", "0">>, TRUE), Ln(1, <<>>, TRUE)>> >>

Supplies(all) == {SubSeq(all, 1, n) : n \in 0..MaxSupply}

\* the comments_list values of the direct calls of insert_comments_str
CommentSupplies == {SubSeq(AllComments, 1, n) : n \in 0..MaxComments}

\* replacement names that are also names of the texts
ClashingVars == <<"y", "q", "x">>

\* the vars_list values of the calls: fresh names, or names that clash
RenameSupplies == Supplies(AllVars) \cup Supplies(ClashingVars)

----------------------------------------------------------------------------
(* The mutators called on their own *)

VARIABLES code, bug_line, op, num, supply, draw, positions, ret

\* the state of process_dataset (defined below)
VARIABLES pc, total_files, file_index, processed_count, max_inserts,
          sample, config, local, drawn, files, written, log

pvars == <<pc, total_files, file_index, processed_count, max_inserts,
           sample, config, local, drawn, files, written, log>>

mvars == <<code, bug_line, op, num, supply, draw, positions, ret>>

\* the state of main() of test_llm.py and test_llm_original.py (defined
\* below): the script that runs, its fourth argument, the directory entries
\* not yet visited, the counters, the verdicts printed, the requests sent
\* to the consumer, and the accuracy of the summary in hundredths of a percent
VARIABLES epc, program, max_matched, listing_left, success_count, failure_count,
          total_count, match_counts, mismatch_counts, verdicts, asked, accuracy_percent

evars == <<epc, program, max_matched, listing_left, success_count, failure_count,
           total_count, match_counts, mismatch_counts, verdicts, asked, accuracy_percent>>

\* no run of an evaluation script
EIdle ==
  /\ epc = "idle"
  /\ program = ""
  /\ max_matched = <<>>
  /\ listing_left = 0
  /\ success_count = 0
  /\ failure_count = 0
  /\ total_count = 0
  /\ match_counts = <<>>
  /\ mismatch_counts = <<>>
  /\ verdicts = <<>>
  /\ asked = 0
  /\ accuracy_percent = 0

\* no run of process_dataset
PIdle ==
  /\ pc = "idle"
  /\ total_files = 0
  /\ file_index = 0
  /\ processed_count = 0
  /\ max_inserts = 0
  /\ sample = <<>>
  /\ config = <<>>
  /\ local = <<>>
  /\ drawn = <<>>
  /\ files = <<>>
  /\ written = <<>>
  /\ log = ""

Init ==
  /\ PIdle
  /\ EIdle
  /\ code \in Texts
  /\ bug_line \in 1..MaxLines
  /\ bug_line <= Len(code)
  /\ op = "none"
  /\ num = 0
  /\ supply = <<>>
  /\ draw = <<>>
  /\ positions = {}
  /\ ret = Return(<<>>, 0)

CallInsertComments ==
  /\ op = "none"
  /\ \E k \in 0..MaxComments, comments_list \in CommentSupplies :
       \E shuffled \in CommentShuffles(code) :
         /\ op' = "comments"
         /\ num' = k
         /\ supply' = comments_list
         /\ draw' = shuffled
         /\ positions' = {}
         /\ ret' = insert_comments_str(code, bug_line, k, comments_list, shuffled)
  /\ UNCHANGED <<code, bug_line>>
  /\ UNCHANGED <<pvars, evars>>

CallUpdateVariableNames ==
  /\ op = "none"
  /\ \E n \in 0..MaxCount, vars_list \in RenameSupplies :
       \E old_vars \in VarOrders(code) :
         /\ op' = "rename"
         /\ num' = n
         /\ supply' = vars_list
         /\ draw' = old_vars
         /\ positions' = {}
         /\ ret' = update_variable_names_str(code, bug_line, n, vars_list, old_vars)
  /\ UNCHANGED <<code, bug_line>>
  /\ UNCHANGED <<pvars, evars>>

CallInsertDeadCode ==
  /\ op = "none"
  /\ \E m \in 0..MaxCount, dead_snippets \in Supplies(AllSnippets) :
       \E chosen_snippets \in SnippetSamples(code, m, dead_snippets),
          P \in PositionSamples(code, m, dead_snippets) :
         /\ op' = "dead"
         /\ num' = m
         /\ supply' = dead_snippets
         /\ draw' = chosen_snippets
         /\ positions' = P
         /\ ret' = insert_dead_code_snippets_str(code, bug_line, m, dead_snippets,
                                                 chosen_snippets, P)
  /\ UNCHANGED <<code, bug_line>>
  /\ UNCHANGED <<pvars, evars>>

Next == CallInsertComments \/ CallUpdateVariableNames \/ CallInsertDeadCode

vars == <<mvars, pvars, evars>>

Spec == Init /\ [][Next]_vars

TypeOK == IsStr(code) /\ (ret.kind = "return" => IsStr(ret.code))

----------------------------------------------------------------------------
(* process_dataset, generate_mutants.py:259-446 *)

Folders == {"commented", "variable", "dead_code", "variable_cumulative",
            "dead_code_cumulative"}

NoResult == [kind |-> "none"]

NoDraw == [draw |-> <<>>, positions |-> {}]

\* round(x) of Python for the quotient a / b of naturals: to nearest, ties
\* to even. The code rounds the float (new_line / total_lines) * 100, which
\* equals the exact quotient's rounding for every total_lines below 40
\* (the first difference is 23 / 40: 57 for the float, 58 exactly)
PyRound(a, b) ==
  LET q == a \div b
      r == a % b
  IN  IF 2 * r < b THEN q
      ELSE IF 2 * r > b THEN q + 1
      ELSE IF q % 2 = 0 THEN q ELSE q + 1

\* round((new_line / total_lines) * 100); the record holds the number that
\* the f-string puts before "%"
updated_percent(new_line, total_lines) == PyRound(100 * new_line, total_lines)

Json(instr, c, line, percent) ==
  [instruction |-> instr, buggy_code |-> c, line_no |-> line, line_no_percent |-> percent]

\* instruction strings as lists of characters; str.strip() of one
Instructions == {<<"f">>, <<" ", "f", " ">>}

RECURSIVE StripLeft(_)
StripLeft(s) == IF s # <<>> /\ Head(s) = " " THEN StripLeft(Tail(s)) ELSE s

RECURSIVE StripRight(_)
StripRight(s) == IF s # <<>> /\ Last(s) = " " THEN StripRight(Front(s)) ELSE s

strip_chars(s) == StripRight(StripLeft(s))

\* the buggy_code values of the input records
SampleTexts == {t \in Texts : Len(t) <= MaxSampleLines}

NoSample == [instruction |-> <<>>, buggy_code |-> <<>>, bug_line |-> 0, raw_instruction |-> <<>>]

NoConfig == [comments_list |-> <<>>, vars_list |-> <<>>, dead_snippets |-> <<>>]

\* no direct call of a mutator
MIdle ==
  /\ code = <<>>
  /\ bug_line = 0
  /\ op = "none"
  /\ num = 0
  /\ supply = <<>>
  /\ draw = <<>>
  /\ positions = {}
  /\ ret = Return(<<>>, 0)

PInit ==
  /\ MIdle
  /\ EIdle
  /\ pc = "loop"
  /\ total_files \in 1..MaxFiles
  /\ file_index = 0
  /\ processed_count = 0
  /\ max_inserts \in 0..MaxCount
  /\ sample = NoSample
  /\ config = NoConfig
  /\ local = [f \in Folders |-> NoResult]
  /\ drawn = [f \in Folders |-> NoDraw]
  /\ files = NoResult
  /\ written = {}
  /\ log = ""

\* the iteration is over (continue, or the end of the loop body): its
\* locals are not read again; log is the message printed last
EndIteration(message) ==
  /\ pc' = "loop"
  /\ log' = message
  /\ sample' = NoSample
  /\ config' = NoConfig
  /\ local' = [f \in Folders |-> NoResult]
  /\ drawn' = [f \in Folders |-> NoDraw]
  /\ files' = NoResult

\* lines 295-310: the next file is opened and its fields are taken
ReadFile ==
  /\ pc = "loop"
  /\ file_index < total_files
  /\ file_index' = file_index + 1
  /\ written' = {}
  /\ \/ \* json.load raises
        /\ sample' = NoSample
        /\ pc' = "loop"
        /\ log' = "Error reading"
     \/ \E instr \in Instructions, text \in SampleTexts, line_no \in 1..MaxSampleLines :
          /\ line_no <= Len(text)
          /\ IF strip(text) = <<>>
             THEN sample' = NoSample /\ pc' = "loop" /\ log' = "Missing required fields"
             ELSE /\ log' = ""
                  /\ sample' = [instruction |-> strip_chars(instr),
                                buggy_code |-> strip(text),
                                bug_line |-> line_no, raw_instruction |-> instr]
                  /\ pc' = "config"
  /\ UNCHANGED <<total_files, processed_count, max_inserts, config, local, drawn, files>>
  /\ UNCHANGED <<mvars, evars>>

\* lines 312-329: the supplies come back from the text oracle, each with
\* up to max_inserts items, or the call raises
GenerateConfig ==
  /\ pc = "config"
  /\ \/ /\ EndIteration("Error generating mutation config")
        /\ UNCHANGED written
     \/ \E c \in Supplies(AllComments), v \in {SubSeq(AllVars, 1, MaxSupply)},
           d \in Supplies(AllSnippets) :
          /\ config' = [comments_list |-> c, vars_list |-> v, dead_snippets |-> d]
          /\ pc' = "commented"
          /\ UNCHANGED <<sample, local, drawn, files, written, log>>
  /\ UNCHANGED <<total_files, file_index, processed_count, max_inserts>>
  /\ UNCHANGED <<mvars, evars>>

\* the tail of each try block: total_lines, updated_percent and the record;
\* a raised error or a division by zero ends the iteration (continue)
Computed(folder, r, d, next) ==
  IF r.kind = "raise"
  THEN EndIteration("Error mutating " \o folder)
  ELSE IF Len(r.code) = 0
  THEN EndIteration("Error mutating " \o folder \o ": division by zero")
  ELSE /\ local' = [local EXCEPT ![folder] = r]
       /\ drawn' = [drawn EXCEPT ![folder] = d]
       /\ pc' = next
       /\ UNCHANGED <<sample, config, files, log>>

\* lines 332-345
MutateCommented ==
  /\ pc = "commented"
  /\ \E shuffled \in CommentShuffles(sample.buggy_code) :
       Computed("commented",
                insert_comments_str(sample.buggy_code, sample.bug_line, max_inserts,
                                    config.comments_list, shuffled),
                [draw |-> shuffled, positions |-> {}], "write_commented")
  /\ UNCHANGED <<total_files, file_index, processed_count, max_inserts, written>>
  /\ UNCHANGED <<mvars, evars>>

\* lines 354-367
MutateVariable ==
  /\ pc = "variable"
  /\ \E old_vars \in VarOrders(sample.buggy_code) :
       Computed("variable",
                update_variable_names_str(sample.buggy_code, sample.bug_line, max_inserts,
                                          config.vars_list, old_vars),
                [draw |-> old_vars, positions |-> {}], "write_variable")
  /\ UNCHANGED <<total_files, file_index, processed_count, max_inserts, written>>
  /\ UNCHANGED <<mvars, evars>>

\* lines 376-389
MutateDeadCode ==
  /\ pc = "dead_code"
  /\ \E chosen \in SnippetSamples(sample.buggy_code, max_inserts, config.dead_snippets),
        P \in PositionSamples(sample.buggy_code, max_inserts, config.dead_snippets) :
       Computed("dead_code",
                insert_dead_code_snippets_str(sample.buggy_code, sample.bug_line, max_inserts,
                                              config.dead_snippets, chosen, P),
                [draw |-> chosen, positions |-> P], "write_dead_code")
  /\ UNCHANGED <<total_files, file_index, processed_count, max_inserts, written>>
  /\ UNCHANGED <<mvars, evars>>

\* lines 399-412 with the renamer fed the pristine sample instead of the
\* commented variant
MutateVariableCumulative_FromPristine ==
  /\ pc = "variable_cumulative"
  /\ \E old_vars \in VarOrders(sample.buggy_code) :
       Computed("variable_cumulative",
                update_variable_names_str(sample.buggy_code, sample.bug_line, max_inserts,
                                          config.vars_list, old_vars),
                [draw |-> old_vars, positions |-> {}], "write_variable_cumulative")
  /\ UNCHANGED <<total_files, file_index, processed_count, max_inserts, written>>
  /\ UNCHANGED <<mvars, evars>>

\* lines 399-412
MutateVariableCumulative ==
  /\ pc = "variable_cumulative"
  /\ LET commented_code == local["commented"].code
         new_line_commented == local["commented"].bug_line
     IN  \E old_vars \in VarOrders(commented_code) :
           Computed("variable_cumulative",
                    update_variable_names_str(commented_code, new_line_commented, max_inserts,
                                              config.vars_list, old_vars),
                    [draw |-> old_vars, positions |-> {}], "write_variable_cumulative")
  /\ UNCHANGED <<total_files, file_index, processed_count, max_inserts, written>>
  /\ UNCHANGED <<mvars, evars>>

\* lines 421-434
MutateDeadCodeCumulative ==
  /\ pc = "dead_code_cumulative"
  /\ LET variable_comm_code == local["variable_cumulative"].code
         new_line_var_comm == local["variable_cumulative"].bug_line
     IN  \E chosen \in SnippetSamples(variable_comm_code, max_inserts, config.dead_snippets),
            P \in PositionSamples(variable_comm_code, max_inserts, config.dead_snippets) :
           Computed("dead_code_cumulative",
                    insert_dead_code_snippets_str(variable_comm_code, new_line_var_comm,
                                                  max_inserts, config.dead_snippets, chosen, P),
                    [draw |-> chosen, positions |-> P], "write_dead_code_cumulative")
  /\ UNCHANGED <<total_files, file_index, processed_count, max_inserts, written>>
  /\ UNCHANGED <<mvars, evars>>

\* the json.dump try blocks (lines 346-352, 368-374, 390-396, 413-419,
\* 435-443): the record of the variant is written, or the write raises and
\* the iteration ends (continue).  files is the record last written under
\* the current file name, written the folders that hold one; of the results
\* only those read again (commented, variable_cumulative) are kept
Keep(folder) == folder \in {"commented", "variable_cumulative"}

\* a writer whose percentage is that of the pristine input
WriteRecord_PristinePercent(folder, next) ==
  /\ pc = "write_" \o folder
  /\ \/ /\ written' = written \cup {folder}
        /\ files' = [folder |-> folder,
                     json |-> Json(sample.instruction, local[folder].code,
                                   local[folder].bug_line,
                                   updated_percent(sample.bug_line,
                                                   Len(sample.buggy_code))),
                     drawn |-> drawn[folder]]
        /\ local' = IF Keep(folder) THEN local
                    ELSE [local EXCEPT ![folder] = NoResult]
        /\ drawn' = IF Keep(folder) THEN drawn
                    ELSE [drawn EXCEPT ![folder] = NoDraw]
        /\ pc' = next
        /\ UNCHANGED <<sample, config, log>>
     \/ /\ EndIteration("Error writing " \o folder)
        /\ UNCHANGED written
  /\ UNCHANGED <<total_files, file_index, max_inserts, processed_count>>
  /\ UNCHANGED <<mvars, evars>>

\* the record of one variant: the dict of lines 337-342 and its json.dump
WriteRecord(folder, next) ==
  /\ pc = "write_" \o folder
  /\ \/ /\ written' = written \cup {folder}
        /\ files' = [folder |-> folder,
                     json |-> Json(sample.instruction, local[folder].code,
                                   local[folder].bug_line,
                                   updated_percent(local[folder].bug_line,
                                                   Len(local[folder].code))),
                     drawn |-> drawn[folder]]
        /\ local' = IF Keep(folder) THEN local
                    ELSE [local EXCEPT ![folder] = NoResult]
        /\ drawn' = IF Keep(folder) THEN drawn
                    ELSE [drawn EXCEPT ![folder] = NoDraw]
        /\ pc' = next
        /\ UNCHANGED <<sample, config, log>>
     \/ /\ EndIteration("Error writing " \o folder)
        /\ UNCHANGED written
  /\ UNCHANGED <<total_files, file_index, max_inserts, processed_count>>
  /\ UNCHANGED <<mvars, evars>>

\* a loop body that goes from the commented record to the dead-code branch
WriteCommented_SkipsVariable == WriteRecord("commented", "dead_code")

WriteCommented == WriteRecord("commented", "variable")

WriteVariable == WriteRecord("variable", "dead_code")

WriteDeadCode == WriteRecord("dead_code", "variable_cumulative")

WriteVariableCumulative == WriteRecord("variable_cumulative", "dead_code_cumulative")

WriteDeadCodeCumulative == WriteRecord("dead_code_cumulative", "processed")

\* lines 443-444
CountProcessed ==
  /\ pc = "processed"
  /\ processed_count' = processed_count + 1
  /\ EndIteration("Processed")
  /\ UNCHANGED <<total_files, file_index, max_inserts, written>>
  /\ UNCHANGED <<mvars, evars>>

\* line 446
Finish ==
  /\ pc = "loop"
  /\ file_index = total_files
  /\ pc' = "finished"
  /\ UNCHANGED <<total_files, file_index, processed_count, max_inserts, sample,
                 config, local, drawn, files, written, log>>
  /\ UNCHANGED <<mvars, evars>>

PNext ==
  \/ ReadFile
  \/ GenerateConfig
  \/ MutateCommented
  \/ WriteCommented
  \/ MutateVariable
  \/ WriteVariable
  \/ MutateDeadCode
  \/ WriteDeadCode
  \/ MutateVariableCumulative
  \/ WriteVariableCumulative
  \/ MutateDeadCodeCumulative
  \/ WriteDeadCodeCumulative
  \/ CountProcessed
  \/ Finish

PipelineSpec == PInit /\ [][PNext]_vars

----------------------------------------------------------------------------
(* Properties of the mutators called on their own (Spec) *)

\* the text of a line, without its terminator
LineText(l) == [ind |-> l.ind, body |-> l.body]

InRange(b, text) == 1 <= b /\ b <= Len(text)

Returned == op # "none" /\ ret.kind = "return"

\* the number of lines indent_snippet yields for a snippet: the non-blank
\* lines of the dedented snippet
NonBlankCount(snippet) ==
  Cardinality({i \in 1..Len(dedent(snippet)) : ~IsBlank(dedent(snippet)[i])})

\* sum of NonBlankCount over the insertions i.. whose offset is at most limit
RECURSIVE SumInserted(_, _, _, _)
SumInserted(offsets, snippets, i, limit) ==
  IF i > Len(offsets) THEN 0
  ELSE (IF offsets[i] <= limit THEN NonBlankCount(snippets[i]) ELSE 0)
       + SumInserted(offsets, snippets, i + 1, limit)

CommentLines(text) == {i \in 1..Len(text) : IsComment(text[i])}

\* C1: after insert_comments_str on a parsable text with an in-range pointer
\* and k <= |supply|, the output line at the returned pointer has the text
\* of the input line at the original pointer.
C1_PointerFollowsDefectLine ==
  (op = "comments" /\ ret.kind = "return" /\ ast_parse_ok(code)
     /\ InRange(bug_line, code) /\ num <= Len(supply))
  => /\ InRange(ret.bug_line, ret.code)
     /\ LineText(ret.code[ret.bug_line]) = LineText(code[bug_line])

\* C2: every mutator returns a pointer inside the returned text when it was
\* given a pointer inside the input text.
C2_PointerInRange ==
  (Returned /\ InRange(bug_line, code)) => InRange(ret.bug_line, ret.code)

\* C3: the pointer insert_dead_code_snippets_str returns is the original
\* pointer plus the non-blank line counts of the dedented snippets inserted
\* at offsets <= original pointer - 1.
C3_DeadCodePointerRule ==
  (op = "dead" /\ ret.kind = "return")
  => ret.bug_line = bug_line + SumInserted(SortedSeq(positions), draw, 1, bug_line - 1)

\* C4: the text insert_dead_code_snippets_str returns has the input line
\* count plus the number of snippet lines inserted.
C4_DeadCodeLineCount ==
  (op = "dead" /\ ret.kind = "return")
  => Len(ret.code) = Len(code) + SumInserted(SortedSeq(positions), draw, 1, Len(code))

\* C5: on a parsable text and k <= |supply|, insert_comments_str returns the
\* input line count plus the number of comments inserted, and inserts
\* min(k, number of distinct statement lines) comments.
C5_CommentLineCount ==
  (op = "comments" /\ ast_parse_ok(code) /\ num <= Len(supply))
  => /\ ret.kind = "return"
     /\ Cardinality(CommentLines(ret.code)) - Cardinality(CommentLines(code))
          = Min2(num, Cardinality(statement_lines_of(code)))
     /\ Len(ret.code) = Len(code) + Min2(num, Cardinality(statement_lines_of(code)))

\* C5 witness: two comments went into a parsable text that has a line which
\* is no statement line
C5_Witness ==
  /\ op = "comments" /\ ast_parse_ok(code) /\ num = 2 /\ Len(supply) >= 2
  /\ ret.kind = "return"
  /\ Cardinality(statement_lines_of(code)) < Len(code)
  /\ Len(ret.code) = Len(code) + 2

\* C6: update_variable_names_str returns the pointer it was given and a text
\* with as many lines as the text it was given, on every return path.
C6_RenamerKeepsPointerAndLineCount ==
  (op = "rename" /\ ret.kind = "return")
  => ret.bug_line = bug_line /\ Len(ret.code) = Len(code)

\* C7: a call with count 0 returns the text and the pointer it was given,
\* for each of the three mutators.
C7_CountZeroIsNoOp ==
  (op # "none" /\ num = 0) => ret = Return(code, bug_line)

\* C10: when the text parses neither before nor after the reformatting,
\* insert_comments_str and update_variable_names_str return the text they
\* were called with, and the pointer.
C10_ParseFailurePassThrough ==
  (op \in {"comments", "rename"} /\ ~ast_parse_ok(code)
     /\ ~ast_parse_ok(autopep8_fix_code(code)))
  => ret = Return(code, bug_line)

----------------------------------------------------------------------------
(* Properties of process_dataset (PipelineSpec) *)

\* the mutators called directly, in sequence, on the sample of the current
\* iteration with its supplies: d is the draw of the last call, the draws
\* of the calls before it are those recorded for the iteration
DirectCommented(d) ==
  insert_comments_str(sample.buggy_code, sample.bug_line, max_inserts,
                      config.comments_list, d.draw)

DirectVariable(d) ==
  update_variable_names_str(sample.buggy_code, sample.bug_line, max_inserts,
                            config.vars_list, d.draw)

DirectDeadCode(d) ==
  insert_dead_code_snippets_str(sample.buggy_code, sample.bug_line, max_inserts,
                                config.dead_snippets, d.draw, d.positions)

DirectVariableCumulative(d) ==
  LET a == DirectCommented(drawn["commented"])
  IN  update_variable_names_str(a.code, a.bug_line, max_inserts, config.vars_list, d.draw)

DirectDeadCodeCumulative(d) ==
  LET b == DirectVariableCumulative(drawn["variable_cumulative"])
  IN  insert_dead_code_snippets_str(b.code, b.bug_line, max_inserts,
                                    config.dead_snippets, d.draw, d.positions)

Direct(folder, d) ==
  CASE folder = "commented" -> DirectCommented(d)
    [] folder = "variable" -> DirectVariable(d)
    [] folder = "dead_code" -> DirectDeadCode(d)
    [] folder = "variable_cumulative" -> DirectVariableCumulative(d)
    [] folder = "dead_code_cumulative" -> DirectDeadCodeCumulative(d)

\* C8: every variant process_dataset computes, and every record it writes,
\* is what the mutators yield when called directly in sequence with the same
\* supplies and draws: variants 1-3 on the sample's (buggy_code, bug_line),
\* variant 4 the renamer on variant 1's output, variant 5 the dead-code
\* injector on variant 4's output.
C8_OrchestratorComposition ==
  /\ \A f \in Folders :
       (pc \notin {"idle", "loop", "finished"} /\ local[f] # NoResult)
       => local[f] = Direct(f, drawn[f])
  /\ (pc \notin {"idle", "loop", "finished"} /\ files # NoResult)
     => /\ files.json.buggy_code = Direct(files.folder, files.drawn).code
        /\ files.json.line_no = Direct(files.folder, files.drawn).bug_line

\* C8 witness: the last record of a sample is written and each of the three
\* mutators of the cumulative path changed the text
C8_Witness ==
  /\ pc = "processed"
  /\ files.folder = "dead_code_cumulative"
  /\ Len(local["commented"].code) > Len(sample.buggy_code)
  /\ local["variable_cumulative"].code # local["commented"].code
  /\ Len(files.json.buggy_code) > Len(local["variable_cumulative"].code)
  /\ files.json.line_no > local["commented"].bug_line
  /\ local["commented"].bug_line > sample.bug_line

MutationFailed(f) ==
  \/ log = "Error mutating " \o f
  \/ log = "Error mutating " \o f \o ": division by zero"

\* C9: when the mutation of one variant fails, the other four variants of
\* the sample are still produced and written.
C9_BranchFailureIsolated ==
  \A f \in Folders :
    (pc = "loop" /\ MutationFailed(f)) => (Folders \ {f}) \subseteq written

----------------------------------------------------------------------------
(* Further properties of the mutators called on their own (Spec) *)

\* the text a mutator parses: the given one, or the reformatted one
ParsedText(text) == IF ast_parse_ok(text) THEN text ELSE autopep8_fix_code(text)

\* C11: whenever the requested count exceeds the length of the comment
\* supply, insert_comments_str raises, whatever the text (unparsable texts
\* and texts without statement lines included).
C11_SupplyRejectedUpFront ==
  (op = "comments" /\ num > Len(supply)) => ret.kind = "raise"

\* the statement lines the call selected: insert_positions of line 140
SelectedLines == SeqToSet(SubSeq(draw, 1, Min2(num, Len(draw))))

\* C12: with k <= |supply| and k greater than the number of statement lines
\* of a parsable text, insert_comments_str returns, the comments it inserted
\* are at most as many as the statement lines, and they stand at pairwise
\* distinct statement lines: each comment of the output is directly followed
\* by a statement line of its own.
C12_MoreCommentsThanStatementLines ==
  (op = "comments" /\ ast_parse_ok(code) /\ num <= Len(supply)
     /\ num > Cardinality(statement_lines_of(code)))
  => /\ ret.kind = "return"
     /\ Cardinality(CommentLines(ret.code)) <= Cardinality(statement_lines_of(code))
     /\ SelectedLines \subseteq statement_lines_of(code)
     /\ \A i \in CommentLines(ret.code) :
          i < Len(ret.code) /\ IsCodeLine(ret.code[i + 1])

\* the keys of rename_map in the order of old_vars (line 178)
RenameKeys == SubSeq(draw, 1, Min2(Min2(num, Len(draw)), Len(supply)))

\* the token a renamed text must hold where the parsed text holds t
Substituted(t) ==
  IF \E k \in 1..Len(RenameKeys) : RenameKeys[k] = t
  THEN supply[CHOOSE k \in 1..Len(RenameKeys) : RenameKeys[k] = t]
  ELSE t

\* C13: in the text update_variable_names_str returns, every token of the
\* parsed source whose spelling is a key of the rename map is replaced by its
\* mapped name, wherever it occurs, and every other token is unchanged.
C13_GlobalSubstitution ==
  (op = "rename" /\ ast_parse_ok(ParsedText(code)) /\ ~tokenize_raises(ParsedText(code)))
  => /\ ret.kind = "return"
     /\ Len(ret.code) <= Len(ParsedText(code))
     /\ \A i \in 1..Len(ret.code) :
          /\ Len(ret.code[i].body) = Len(ParsedText(code)[i].body)
          /\ \A j \in 1..Len(ret.code[i].body) :
               ret.code[i].body[j] = Substituted(ParsedText(code)[i].body[j])

\* C13 witness: a name that is written on one line and read on a later one
\* was renamed at both places, and another name of the text was kept
C13_Witness ==
  /\ op = "rename" /\ ast_parse_ok(code) /\ Len(RenameKeys) = 1
  /\ \E i, k \in 1..Len(ret.code) :
       /\ i < k /\ Len(code[i].body) = 3 /\ Len(code[k].body) = 3
       /\ code[i].body[1] = RenameKeys[1] /\ code[k].body[3] = RenameKeys[1]
       /\ ret.code[i].body[1] = supply[1] /\ ret.code[k].body[3] = supply[1]
       /\ code[k].body[1] \in Names \ {RenameKeys[1]}
       /\ ret.code[k].body[1] = code[k].body[1]

----------------------------------------------------------------------------
(* Further properties of process_dataset (PipelineSpec) *)

\* C14: every record process_dataset writes carries the instruction string
\* of the input record character for character, leading and trailing
\* whitespace included.
C14_InstructionVerbatim ==
  files # NoResult => files.json.instruction = sample.raw_instruction

\* C15: the line_no_percent of every written record is
\* round(pointer / output_line_count * 100) for the pointer and the line
\* count of the text of that same record, and the line count is never 0 when
\* the division is performed.
C15_PercentOfSameVariant ==
  /\ \A f \in Folders : log # "Error mutating " \o f \o ": division by zero"
  /\ files # NoResult
     => /\ Len(files.json.buggy_code) > 0
        /\ files.json.line_no_percent
             = PyRound(100 * files.json.line_no, Len(files.json.buggy_code))

\* C15 witness: a record whose percentage is rounded, and differs from the
\* percentage of the pristine input
C15_Witness ==
  /\ files # NoResult
  /\ (100 * files.json.line_no) % Len(files.json.buggy_code) # 0
  /\ files.json.line_no_percent
       = PyRound(100 * files.json.line_no, Len(files.json.buggy_code))
  /\ files.json.line_no_percent
       # PyRound(100 * sample.bug_line, Len(sample.buggy_code))

----------------------------------------------------------------------------
(* Placement and pointer shift of the comment injector (Spec) *)

\* C16: after insert_comments_str on a text that parses, with k <= |supply|,
\* the comment inserted for each selected statement line (taken in ascending
\* order) is directly followed in the output by the text of that original
\* line, also when several lines are selected.
C16_CommentBeforeSelectedLine ==
  (op = "comments" /\ ast_parse_ok(ParsedText(code)) /\ num <= Len(supply)
     /\ ret.kind = "return")
  => \A k \in 1..Cardinality(SelectedLines) :
       \E i \in 1..(Len(ret.code) - 1) :
         /\ LineText(ret.code[i]) = LineText(supply[k])
         /\ LineText(ret.code[i + 1])
              = LineText(ParsedText(code)[SortedSeq(SelectedLines)[k]])

\* the pointer after the insertions i.. when each position is compared with
\* the pointer as the earlier insertions left it
RECURSIVE ShiftByCurrentPointer(_, _, _)
ShiftByCurrentPointer(insert_positions, i, pointer) ==
  IF i > Len(insert_positions) THEN pointer
  ELSE ShiftByCurrentPointer(insert_positions, i + 1,
         IF insert_positions[i] <= pointer THEN pointer + 1 ELSE pointer)

\* C17: the pointer insert_comments_str returns is the original pointer
\* moved by 1 for each insertion, taken in ascending order, whose position
\* is <= the pointer as already updated by the earlier insertions, and by 0
\* for each other insertion.
C17_ShiftAgainstCurrentPointer ==
  (op = "comments" /\ ast_parse_ok(ParsedText(code)) /\ num <= Len(supply)
     /\ ret.kind = "return")
  => ret.bug_line = ShiftByCurrentPointer(SortedSeq(SelectedLines), 1, bug_line)

----------------------------------------------------------------------------
(* The rename map (Spec) *)

\* the stored names of lines i.. of a text in the order the traversal of
\* the tree meets them first; seen holds the names met before line i
RECURSIVE DiscoveryOrder(_, _, _)
DiscoveryOrder(text, i, seen) ==
  IF i > Len(text) THEN <<>>
  ELSE IF IsAssign(text[i]) /\ text[i].body[1] \notin seen
       THEN <<text[i].body[1]>> \o DiscoveryOrder(text, i + 1, seen \cup {text[i].body[1]})
       ELSE DiscoveryOrder(text, i + 1, seen)

\* C18: update_variable_names_str never raises, and the keys of its rename
\* map are the first min(n, |collected|, |supply|) stored names in the order
\* of their first discovery in the tree traversal, paired positionally with
\* the first that many supply strings.
C18_RenameMapInDiscoveryOrder ==
  (op = "rename" /\ ast_parse_ok(ParsedText(code)))
  => /\ ret.kind = "return"
     /\ Len(RenameKeys)
          = Min2(Min2(num, Cardinality(collector_variables(ParsedText(code)))), Len(supply))
     /\ RenameKeys
          = SubSeq(DiscoveryOrder(ParsedText(code), 1, {}), 1, Len(RenameKeys))

----------------------------------------------------------------------------
(* Sampling and re-indentation of the dead-code injector (Spec) *)

\* m' of the dead-code injector for the call of the current state
EffectiveCount == Min2(Min2(num, Len(supply)), Len(code))

\* every snippet of the supply holds the token z once, and no input text
\* holds it: the number of snippets that went into a text
SnippetsIn(text) ==
  Cardinality({p \in (1..Len(text)) \X (1..5) :
                 p[2] <= Len(text[p[1]].body) /\ text[p[1]].body[p[2]] = "z"})

\* C19: insert_dead_code_snippets_str never raises; with
\* m' = min(m, |supply|, total_line_count) it returns (text, pointer)
\* unchanged when m' <= 0, and otherwise inserts exactly m' snippets, taken
\* from pairwise distinct supply positions, at pairwise distinct offsets in
\* [0, total_line_count].
C19_DeadCodeSampling ==
  op = "dead"
  => /\ ret.kind = "return"
     /\ EffectiveCount <= 0 => ret = Return(code, bug_line)
     /\ EffectiveCount > 0
        => /\ Len(draw) = EffectiveCount
           /\ \A i \in 1..Len(draw) : \E k \in 1..Len(supply) : draw[i] = supply[k]
           /\ \A i, j \in 1..Len(draw) : draw[i] = draw[j] => i = j
           /\ Cardinality(positions) = EffectiveCount
           /\ positions \subseteq 0..Len(code)
           /\ SnippetsIn(ret.code) = EffectiveCount

\* C19 witness: two snippets of a two-item supply went in, one at offset 0
\* and one at the offset after the last line
C19_Witness ==
  /\ op = "dead" /\ num = 2 /\ Len(supply) = 2 /\ Len(code) >= 2
  /\ draw = <<supply[2], supply[1]>>
  /\ positions = {0, Len(code)}
  /\ ret.kind = "return"
  /\ SnippetsIn(ret.code) = 2

\* the indentation of the nearest non-blank line among lines 1..i of a text,
\* 0 if there is none
RECURSIVE NearestIndentBefore(_, _)
NearestIndentBefore(text, i) ==
  IF i < 1 THEN 0
  ELSE IF ~IsBlank(text[i]) THEN text[i].ind
  ELSE NearestIndentBefore(text, i - 1)

\* the indentation a snippet inserted at the 0-based offset pos is to get
ExpectedIndent(text, pos) ==
  IF pos < Len(text) /\ ~IsBlank(text[pos + 1])
  THEN text[pos + 1].ind
  ELSE NearestIndentBefore(text, Min2(pos, Len(text)))

\* C20: the prefix the dead-code injector puts before the lines of a snippet
\* is the indentation of the target line when that line exists and is not
\* blank, and otherwise (offset at the end of the text, or a blank target
\* line) the indentation of the nearest preceding non-blank line, or the
\* empty string; it never contains a line terminator.
C20_ReindentationPrefix ==
  (op = "dead" /\ EffectiveCount > 0)
  => \A pos \in positions :
       /\ get_base_indent(splitlines_keepends(code), pos)
            = Indent(ExpectedIndent(code, pos))
       /\ \A i \in 1..Len(get_base_indent(splitlines_keepends(code), pos)) :
            ~get_base_indent(splitlines_keepends(code), pos)[i].eol

----------------------------------------------------------------------------
(* The original lines under dead-code insertion (Spec) *)

\* a line that starts with a token only the supply snippets start with
IsSnippetLine(l) == Len(l.body) > 0 /\ l.body[1] \in {"z", "w"}

\* the 1-based output line at which the snippet of offset o is to start:
\* after the o original lines before it and the snippet lines of the
\* smaller offsets
SnippetStart(o) == o + SumInserted(SortedSeq(positions), draw, 1, o - 1) + 1

\* C21: insert_dead_code_snippets_str keeps the original lines: deleting the
\* inserted snippet lines from the output yields the input line sequence,
\* every line with its text unchanged, and the snippet chosen for offset o
\* stands immediately before original line index o.
C21_DeadCodeKeepsOriginalLines ==
  (op = "dead" /\ ret.kind = "return")
  => LET kept == SelectSeq(ret.code, LAMBDA l : ~IsSnippetLine(l))
         offsets == SortedSeq(positions)
     IN  /\ Len(kept) = Len(code)
         /\ \A i \in 1..Min2(Len(kept), Len(code)) :
              LineText(kept[i]) = LineText(code[i])
         /\ \A k \in 1..Len(offsets) :
              LET first == SnippetStart(offsets[k])
                  after == first + NonBlankCount(draw[k])
              IN  /\ after - 1 <= Len(ret.code)
                  /\ \A i \in first..Min2(after - 1, Len(ret.code)) :
                       IsSnippetLine(ret.code[i])
                  /\ offsets[k] < Len(code)
                     => /\ after <= Len(ret.code)
                        /\ LineText(ret.code[Min2(after, Len(ret.code))])
                             = LineText(code[offsets[k] + 1])

----------------------------------------------------------------------------
(* Write failures and the order of the records (PipelineSpec) *)

WriteFailed(f) == log = "Error writing " \o f

\* C22: when writing the record of one variant fails, only that record is
\* missing: the other four variants of the sample are still computed and
\* written.
C22_WriteFailureIsLocal ==
  \A f \in Folders :
    (pc = "loop" /\ WriteFailed(f)) => (Folders \ {f}) \subseteq written

\* the order of the five blocks of the loop body
WriteOrder ==
  <<"commented", "variable", "dead_code", "variable_cumulative", "dead_code_cumulative">>

\* the records of the current sample are those of a prefix of WriteOrder
WrittenInOrder ==
  \A i \in 1..Len(WriteOrder) :
    WriteOrder[i] \in written => \A j \in 1..(i - 1) : WriteOrder[j] \in written

\* C24: process_dataset writes the variants of a sample in the order
\* commented, variable, dead_code, variable_cumulative, dead_code_cumulative,
\* a variant only after every earlier one was written; processed_count grows
\* by one, and only for a sample whose five records were written, so
\* processed_count <= total_files in every state.
C24_OutputOrdering ==
  /\ [](/\ WrittenInOrder
        /\ files # NoResult => files.folder \in written
        /\ processed_count <= file_index
        /\ file_index <= total_files)
  /\ [][/\ written' \subseteq written \/ \E i \in 1..Len(WriteOrder) :
             /\ written = {WriteOrder[j] : j \in 1..(i - 1)}
             /\ written' = written \cup {WriteOrder[i]}
        /\ processed_count' # processed_count
           => /\ written = Folders
              /\ processed_count' = processed_count + 1]_vars

\* C24 witness: the first sample was counted with its five records, the
\* second one stopped after its second record
C24_Witness ==
  /\ pc = "loop"
  /\ file_index = 2
  /\ processed_count = 1
  /\ written = {"commented", "variable"}

----------------------------------------------------------------------------
(* main() of test_llm.py and test_llm_original.py                          *)

\* directory entries of the input folder
MaxListing == 4

\* the largest fourth argument
MaxMatched == 2

\* the largest line number of a sample
MaxLineNo == 4

Programs == {"test_llm", "test_llm_original"}

Windows == {"0-25", "25-50", "50-75", "75-100"}

\* values of float(line_no_percent.strip('%'))
Percents == {0, 24, 25, 49, 50, 74, 75, 100}

\* the answers of ask_llm_for_bug_line: a line number, or -1
Predictions == {-1} \cup (1..(MaxLineNo + 3))

\* sys.argv[4] of test_llm_original.py: absent, not an integer, an integer
Argv4 ==
  {[kind |-> "absent", value |-> 0], [kind |-> "text", value |-> 0]}
    \cup {[kind |-> "int", value |-> n] : n \in (-1)..MaxMatched}

\* test_llm_original.py:60-65; None is the empty tuple. test_llm.py has no
\* fourth argument
ParseMaxMatched(prog, arg) ==
  IF prog = "test_llm_original" /\ arg.kind = "int" THEN <<arg.value>> ELSE <<>>

\* the if chain of test_llm_original.py:108-115, test_llm.py:103-110
WindowOf(percent_value) ==
  IF percent_value < 25 THEN "0-25"
  ELSE IF percent_value < 50 THEN "25-50"
  ELSE IF percent_value < 75 THEN "50-75"
  ELSE "75-100"

Abs(n) == IF n < 0 THEN 0 - n ELSE n

\* round((success_count / total_count) * 100, 2) if total_count > 0 else 0,
\* in hundredths of a percent
AccuracyOf(success, total) ==
  IF total > 0 THEN PyRound(10000 * success, total) ELSE 0

EInit ==
  /\ MIdle
  /\ PIdle
  /\ epc = "loop"
  /\ program \in Programs
  /\ \E arg \in Argv4 : max_matched = ParseMaxMatched(program, arg)
  /\ listing_left \in 0..MaxListing
  /\ success_count = 0
  /\ failure_count = 0
  /\ total_count = 0
  /\ match_counts = [w \in Windows |-> 0]
  /\ mismatch_counts = [w \in Windows |-> 0]
  /\ verdicts = [MATCH |-> 0, MISMATCH |-> 0]
  /\ asked = 0
  /\ accuracy_percent = 0

\* the next directory entry is taken by the for loop
NextEntry ==
  /\ epc = "loop"
  /\ listing_left > 0
  /\ listing_left' = listing_left - 1
  /\ UNCHANGED <<program, max_matched, accuracy_percent>>
  /\ UNCHANGED <<mvars, pvars>>

\* an entry that is no .json file, or that json.load cannot read: continue
SkipEntry ==
  /\ NextEntry
  /\ epc' = "loop"
  /\ UNCHANGED <<success_count, failure_count, total_count, match_counts,
                 mismatch_counts, verdicts, asked>>

\* a record with a missing field or a line_no_percent that is no number:
\* failure_count += 1; continue
RejectRecord ==
  /\ NextEntry
  /\ epc' = "loop"
  /\ failure_count' = failure_count + 1
  /\ UNCHANGED <<success_count, total_count, match_counts, mismatch_counts,
                 verdicts, asked>>

\* test_llm_original.py:135: the early stop after a match
StopsAfterMatch(matches) ==
  max_matched # <<>> /\ matches >= max_matched[1]

\* a complete record: the consumer is asked and its answer is judged
\* (test_llm_original.py:117-148, test_llm.py:112-141)
EvaluateSample ==
  /\ NextEntry
  /\ asked' = asked + 1
  /\ \E percent_value \in Percents, original_line_no \in 1..MaxLineNo,
        predicted_line_no \in Predictions :
       LET window == WindowOf(percent_value)
       IN  IF predicted_line_no = -1
           THEN /\ failure_count' = failure_count + 1
                /\ epc' = "loop"
                /\ UNCHANGED <<success_count, total_count, match_counts,
                               mismatch_counts, verdicts>>
           ELSE IF Abs(predicted_line_no - original_line_no) <= 2
           THEN /\ verdicts' = [verdicts EXCEPT !.MATCH = @ + 1]
                /\ success_count' = success_count + 1
                /\ match_counts' = [match_counts EXCEPT ![window] = @ + 1]
                /\ IF StopsAfterMatch(success_count + 1)
                   THEN epc' = "summary" /\ UNCHANGED total_count
                   ELSE epc' = "loop" /\ total_count' = total_count + 1
                /\ UNCHANGED <<failure_count, mismatch_counts>>
           ELSE /\ verdicts' = [verdicts EXCEPT !.MISMATCH = @ + 1]
                /\ failure_count' = failure_count + 1
                /\ mismatch_counts' = [mismatch_counts EXCEPT ![window] = @ + 1]
                /\ total_count' = total_count + 1
                /\ epc' = "loop"
                /\ UNCHANGED <<success_count, match_counts>>

\* after the loop (exhausted, or left by break): the summary and the row of
\* the results file
Summary ==
  /\ \/ epc = "loop" /\ listing_left = 0
     \/ epc = "summary"
  /\ epc' = "done"
  /\ accuracy_percent' = AccuracyOf(success_count, total_count)
  /\ UNCHANGED <<program, max_matched, listing_left, success_count, failure_count,
                 total_count, match_counts, mismatch_counts, verdicts, asked>>
  /\ UNCHANGED <<mvars, pvars>>

ENext == SkipEntry \/ RejectRecord \/ EvaluateSample \/ Summary

EvalSpec == EInit /\ [][ENext]_vars

----------------------------------------------------------------------------
(* Properties of the evaluation scripts (EvalSpec) *)

\* the fourth argument was an integer that a count of matches can reach
EarlyStopAsked ==
  program = "test_llm_original" /\ max_matched # <<>> /\ max_matched[1] >= 0

\* C23: in test_llm_original with an integer fourth argument max_matched,
\* the loop stops as soon as the number of matches reaches max_matched:
\* success_count never exceeds max_matched, and no sample is sent to the
\* consumer once success_count has reached it.
C23_EarlyStop ==
  /\ [](EarlyStopAsked => success_count <= max_matched[1])
  /\ [][EarlyStopAsked /\ success_count >= max_matched[1] => asked' = asked]_vars

\* the sum of the four counters of one dict
WindowSum(counts) ==
  counts["0-25"] + counts["25-50"] + counts["50-75"] + counts["75-100"]

\* C27: at the end of a run of either script total_count is the number of
\* MATCH verdicts plus the number of MISMATCH verdicts, success_count is the
\* sum of the four match window counters, and the reported accuracy
\* success_count / total_count is at most 100%; every judged sample
\* increments exactly one window counter.
C27_CountersConsistent ==
  /\ [](epc = "done"
        => /\ total_count = verdicts.MATCH + verdicts.MISMATCH
           /\ success_count = WindowSum(match_counts)
           /\ accuracy_percent <= 10000)
  /\ [][verdicts' # verdicts
        => WindowSum(match_counts') + WindowSum(mismatch_counts')
             = WindowSum(match_counts) + WindowSum(mismatch_counts) + 1]_vars

----------------------------------------------------------------------------
(* The defect line under a single insertion, and chained renames (Spec) *)

\* the element of a set of one element
TheOne(S) == CHOOSE x \in S : TRUE

\* C25: for a single insertion both injectors treat the defect line alike:
\* an insertion immediately before it moves the pointer by the number of
\* lines inserted, an insertion immediately after it leaves the pointer
\* unchanged (insert_comments_str: position pointer, resp. pointer + 1;
\* insert_dead_code_snippets_str: offset pointer - 1, resp. pointer).
C25_InjectorsTreatDefectLineAlike ==
  /\ (op = "comments" /\ ast_parse_ok(code) /\ num <= Len(supply)
        /\ ret.kind = "return" /\ Cardinality(SelectedLines) = 1)
     => /\ TheOne(SelectedLines) = bug_line => ret.bug_line = bug_line + 1
        /\ TheOne(SelectedLines) = bug_line + 1 => ret.bug_line = bug_line
  /\ (op = "dead" /\ ret.kind = "return" /\ Cardinality(positions) = 1
        /\ Len(draw) = 1)
     => /\ TheOne(positions) = bug_line - 1
           => ret.bug_line = bug_line + NonBlankCount(draw[1])
        /\ TheOne(positions) = bug_line => ret.bug_line = bug_line

\* the names a text holds
NamesIn(text) ==
  {n \in Names : \E i \in 1..Len(text) : \E j \in 1..Len(text[i].body) :
                   text[i].body[j] = n}

\* C26: renaming is simultaneous: when a replacement name is itself a name
\* of the text (a key of the map or not), the call is not rejected and each
\* token is looked up once by its original spelling, so with a -> b and
\* b -> c in the map an original a becomes b, not c, and an original b
\* becomes c.
C26_RenamingIsSimultaneous ==
  (op = "rename" /\ ast_parse_ok(ParsedText(code)) /\ ~tokenize_raises(ParsedText(code))
     /\ \E k \in 1..Len(RenameKeys) : supply[k] \in NamesIn(ParsedText(code)))
  => /\ ret.kind = "return"
     /\ \A i \in 1..Len(ret.code) :
          \A j \in 1..Len(ParsedText(code)[i].body) :
            LET t == ParsedText(code)[i].body[j]
            IN  /\ j <= Len(ret.code[i].body)
                /\ \A k \in 1..Len(RenameKeys) :
                     t = RenameKeys[k] => ret.code[i].body[j] = supply[k]
                /\ t \notin SeqToSet(RenameKeys) => ret.code[i].body[j] = t

\* C26 witness: the map is x -> y, y -> q; the text that wrote x and then y
\* from x now writes y and then q from y
C26_Witness ==
  /\ op = "rename" /\ ast_parse_ok(code)
  /\ RenameKeys = <<"x", "y">> /\ supply = <<"y", "q">>
  /\ Len(code) >= 2 /\ Len(ret.code) >= 2
  /\ code[1].body = <<"x", "=", "1">> /\ code[2].body = <<"y", "=", "x">>
  /\ ret.code[1].body = <<"y", "=", "1">> /\ ret.code[2].body = <<"q", "=", "y">>

====
